---- MODULE Spec2Model ----
(***************************************************************************)
(* Model of the terminal-command capture logic of the VS Code client       *)
(* (client/vscode/src/capture.ts): the OperationQueue promise chain,       *)
(* splitCommands, captureCommands, processTerminalExecution, queueCapture. *)
(*                                                                         *)
(* Strings are sequences of one-character strings.  An optional value      *)
(* (number | undefined, string | undefined) is a sequence of length 0 or 1.*)
(***************************************************************************)
EXTENDS Integers, Sequences, FiniteSets, TLC

VARIABLES
    \* ---- the OperationQueue and the client it drives
    ops,        \* the operations passed to enqueue, in enqueue order
    opP,        \* opP[i]: the promise operation i returned ("unstarted" before it is invoked)
    thenP,      \* thenP[i]: the promise this.queue.then(operation) of enqueue i
    catchP,     \* catchP[i]: the promise (...).catch(() => {}) of enqueue i: the tail after enqueue i
    started,    \* the operations invoked so far, in invocation order
    calls,      \* the client.addCommand calls made so far, in call order
    enqueuedWhileRunning,   \* history: enqueuedWhileRunning[i] iff an operation was running when enqueue i was called
    \* ---- one terminal execution event handed to processTerminalExecution
    commandLine,
    exitCode,
    workspaceContext,
    captureSuccessOnly,
    result,     \* what processTerminalExecution returned (NotCalled before the call)
    split,      \* what splitCommands returned for commandLine, once it was called
    \* ---- the caller of queueCapture
    sessionClient,  \* the client handle the caller holds now (Undefined: none)
    overtaken       \* history: the operations that were waiting when sessionClient last changed

queueVars == <<ops, opP, thenP, catchP, started, calls, enqueuedWhileRunning>>
eventVars == <<commandLine, exitCode, workspaceContext, captureSuccessOnly, result,
               split, sessionClient, overtaken>>
vars == <<ops, opP, thenP, catchP, started, calls, enqueuedWhileRunning,
          commandLine, exitCode, workspaceContext, captureSuccessOnly, result,
          split, sessionClient, overtaken>>

(***************************************************************************)
(* Bounds                                                                  *)
(***************************************************************************)
MaxOps == 3         \* enqueue calls on the one queue
MaxLen == 4         \* characters of a terminal command line
MaxSplitLen == 5    \* characters of a string handed to splitCommands alone
MaxSessionOps == 2  \* queueCapture calls while the caller's client changes
MaxFairOps == 2     \* enqueue calls in the specification with fairness

(***************************************************************************)
(* Values                                                                  *)
(***************************************************************************)
Undefined == <<>>
Some(v) == <<v>>
NULL == [isNull |-> TRUE]
NotCalled == [notCalled |-> TRUE]
NotSplit == [called |-> FALSE, commands |-> <<>>]

Chars == {"a", "b", " ", "\n", ";", "&", "|"}
WhiteSpace == {" ", "\n"}

RECURSIVE StringsOfLen(_)
StringsOfLen(n) ==
    IF n = 0 THEN {<<>>}
    ELSE {Append(s, c) : s \in StringsOfLen(n - 1), c \in Chars}

RECURSIVE StringsUpTo(_)
StringsUpTo(n) ==
    IF n = 0 THEN StringsOfLen(0)
    ELSE StringsUpTo(n - 1) \cup StringsOfLen(n)

ExitCodes == {Undefined, Some(0), Some(1)}
Contexts == {Undefined, Some("/workspace")}
Clients == {"client1", "client2"}

(***************************************************************************)
(* String.prototype.trim and String.prototype.split                        *)
(***************************************************************************)
RECURSIVE trimStart(_)
trimStart(s) ==
    IF s # <<>> /\ Head(s) \in WhiteSpace THEN trimStart(Tail(s)) ELSE s

RECURSIVE trimEnd(_)
trimEnd(s) ==
    IF s # <<>> /\ s[Len(s)] \in WhiteSpace
    THEN trimEnd(SubSeq(s, 1, Len(s) - 1))
    ELSE s

\* Mutant: trimStart in place of trim.
trimOnlyStart(s) == trimStart(s)

trim(s) == trimEnd(trimStart(s))

\* s.split('\n'): the pieces between newlines, empty pieces included.
\* acc is the list of finished pieces, cur the piece being read.
RECURSIVE splitLinesFrom(_, _, _)
splitLinesFrom(s, acc, cur) ==
    IF s = <<>> THEN Append(acc, cur)
    ELSE IF Head(s) = "\n" THEN splitLinesFrom(Tail(s), Append(acc, cur), <<>>)
    ELSE splitLinesFrom(Tail(s), acc, Append(cur, Head(s)))

splitLines(s) == splitLinesFrom(s, <<>>, <<>>)

\* Mutant: the pattern /\||&|;/: a single | or & separates too.
sepAtSingle(s) ==
    IF Len(s) >= 1 /\ s[1] \in {"|", "&", ";"} THEN 1 ELSE 0

\* Mutant: the pattern /&&|;/: || is no separator.
sepAtNoOr(s) ==
    IF Len(s) >= 2 /\ s[1] = "&" /\ s[2] = "&" THEN 2
    ELSE IF Len(s) >= 1 /\ s[1] = ";" THEN 1
    ELSE 0

\* The length of the match of /\|\||&&|;/ at the start of s (0: no match).
sepAt(s) ==
    IF Len(s) >= 2 /\ s[1] = "|" /\ s[2] = "|" THEN 2
    ELSE IF Len(s) >= 2 /\ s[1] = "&" /\ s[2] = "&" THEN 2
    ELSE IF Len(s) >= 1 /\ s[1] = ";" THEN 1
    ELSE 0

\* line.split(/\|\||&&|;/): left to right, leftmost match first.
RECURSIVE splitSepFrom(_, _, _)
splitSepFrom(s, acc, cur) ==
    IF s = <<>> THEN Append(acc, cur)
    ELSE IF sepAt(s) > 0
         THEN splitSepFrom(SubSeq(s, sepAt(s) + 1, Len(s)), Append(acc, cur), <<>>)
         ELSE splitSepFrom(Tail(s), acc, Append(cur, Head(s)))

splitSep(line) == splitSepFrom(line, <<>>, <<>>)

(***************************************************************************)
(* splitCommands                                                           *)
(***************************************************************************)
\* Mutant: the loop without its `if (trimmed.length > 0)`.
RECURSIVE pushPartsKeepEmpty(_, _)
pushPartsKeepEmpty(commands, parts) ==
    IF parts = <<>> THEN commands
    ELSE pushPartsKeepEmpty(Append(commands, trim(Head(parts))), Tail(parts))

\* parts.forEach(cmd => { trimmed = cmd.trim(); if (trimmed.length > 0) push })
RECURSIVE pushParts(_, _)
pushParts(commands, parts) ==
    IF parts = <<>> THEN commands
    ELSE pushParts(IF Len(trim(Head(parts))) > 0
                   THEN Append(commands, trim(Head(parts)))
                   ELSE commands,
                   Tail(parts))

\* commandLine.split('\n').forEach(line => ...)
RECURSIVE pushLines(_, _)
pushLines(commands, lines) ==
    IF lines = <<>> THEN commands
    ELSE pushLines(pushParts(commands, splitSep(Head(lines))), Tail(lines))

\* Mutant: the newline split left out: the whole input is one line.
splitCommandsNoLines(cl) == pushParts(<<>>, splitSep(cl))

splitCommands(cl) == pushLines(<<>>, splitLines(cl))

(***************************************************************************)
(* processTerminalExecution                                                *)
(***************************************************************************)
\* Mutant: the emptiness test without the trim.
isEmptyCommandNoTrim(cl) == cl = <<>>

\* !commandLine || commandLine.trim().length === 0
isEmptyCommand(cl) == cl = <<>> \/ Len(trim(cl)) = 0

\* captureSuccessOnly && exitCode !== 0
isFilteredOut(ec, successOnly) == successOnly /\ ec # Some(0)

\* Mutant: a falsy test (!exitCode) in place of exitCode === 0.
statusOfFalsy(ec) == IF ec = Some(0) \/ ec = Undefined THEN "success" ELSE "failed"

\* exitCode === 0 ? 'success' : 'failed'
statusOf(ec) == IF ec = Some(0) THEN "success" ELSE "failed"

\* Mutant: the command line is not split: it is the one command of the request.
processTerminalExecutionNoSplit(cl, ec, ctx, successOnly) ==
    IF isEmptyCommand(cl) THEN NULL
    ELSE IF isFilteredOut(ec, successOnly) THEN NULL
    ELSE [commands |-> <<cl>>,
          options |-> [context |-> ctx, status |-> statusOf(ec)]]

processTerminalExecution(cl, ec, ctx, successOnly) ==
    IF isEmptyCommand(cl) THEN NULL
    ELSE IF isFilteredOut(ec, successOnly) THEN NULL
    ELSE [commands |-> splitCommands(cl),
          options |-> [context |-> ctx, status |-> statusOf(ec)]]

(***************************************************************************)
(* Specification SpecPTE: one call of processTerminalExecution on an       *)
(* arbitrary terminal execution event.                                     *)
(***************************************************************************)
QueueIdle ==
    /\ ops = <<>>
    /\ opP = <<>>
    /\ thenP = <<>>
    /\ catchP = <<>>
    /\ started = <<>>
    /\ calls = <<>>
    /\ enqueuedWhileRunning = <<>>

\* Nothing was split and the caller holds the one client it started with.
CallerIdle ==
    /\ split = NotSplit
    /\ sessionClient = Some("client1")
    /\ overtaken = {}

InitPTE ==
    /\ QueueIdle
    /\ CallerIdle
    /\ commandLine \in StringsUpTo(MaxLen)
    /\ exitCode \in ExitCodes
    /\ workspaceContext \in Contexts
    /\ captureSuccessOnly \in BOOLEAN
    /\ result = NotCalled

ProcessEvent ==
    /\ result = NotCalled
    /\ result' = processTerminalExecution(commandLine, exitCode,
                                          workspaceContext, captureSuccessOnly)
    /\ UNCHANGED <<commandLine, exitCode, workspaceContext, captureSuccessOnly>>
    /\ UNCHANGED <<split, sessionClient, overtaken>>
    /\ UNCHANGED queueVars

NextPTE == ProcessEvent

SpecPTE == InitPTE /\ [][NextPTE]_vars

(***************************************************************************)
(* Specification SpecSplit: one call of splitCommands on an arbitrary      *)
(* string.                                                                 *)
(***************************************************************************)
InitSplit ==
    /\ QueueIdle
    /\ CallerIdle
    /\ commandLine \in StringsUpTo(MaxSplitLen)
    /\ exitCode = Undefined
    /\ workspaceContext = Undefined
    /\ captureSuccessOnly = FALSE
    /\ result = NotCalled

SplitEvent ==
    /\ ~split.called
    /\ split' = [called |-> TRUE, commands |-> splitCommands(commandLine)]
    /\ UNCHANGED <<commandLine, exitCode, workspaceContext, captureSuccessOnly, result>>
    /\ UNCHANGED <<sessionClient, overtaken>>
    /\ UNCHANGED queueVars

NextSplit == SplitEvent

SpecSplit == InitSplit /\ [][NextSplit]_vars

(***************************************************************************)
(* The promises of the OperationQueue.                                     *)
(* A promise is "pending", "fulfilled" or "rejected"; opP[i] is            *)
(* "unstarted" until operation i is invoked.                               *)
(***************************************************************************)
Settled(p) == p \in {"fulfilled", "rejected"}

\* Mutant: enqueue chains on a fresh Promise.resolve() instead of this.queue.
previousTailDetached(i) == "fulfilled"

\* this.queue as enqueue i read it: Promise.resolve() for the first enqueue,
\* the tail the previous enqueue stored otherwise.
previousTail(i) == IF i = 1 THEN "fulfilled" ELSE catchP[i - 1]

\* Mutant: the chain without its .catch: a rejection stays a rejection.
catchOutcomeNoCatch(p) == p

\* .catch(() => {}): a fulfilled promise passes through, a rejected one runs the
\* handler, which returns undefined.
catchOutcome(p) == IF p = "rejected" THEN "fulfilled" ELSE p

\* The operation queueCapture passes to enqueue: a closure over client and result.
queueCaptureOperation(client, res) ==
    [kind |-> "capture", client |-> client, result |-> res]

\* Any other operation a caller passes to enqueue: it settles when it chooses.
otherOperation == [kind |-> "operation"]

\* Mutant: the status is not taken from the request: every call says success.
captureCallsStatusFixed(i, client, commands, options) ==
    [k \in 1..Len(commands) |->
        [op |-> i, index |-> k, client |-> client, cmd |-> commands[k],
         description |-> <<>>, options |-> [options EXCEPT !.status = "success"],
         state |-> "pending"]]

\* Mutant: a loop that awaits each call before it makes the next
\* (for (const cmd of commands) await client.addCommand(...)): only the first
\* call is made before the operation waits.
captureCallsSequential(i, client, commands, options) ==
    [k \in 1..(IF Len(commands) > 0 THEN 1 ELSE 0) |->
        [op |-> i, index |-> k, client |-> client, cmd |-> commands[k],
         description |-> <<>>, options |-> options, state |-> "pending"]]

\* commands.map(cmd => client.addCommand(cmd, '', options)): the calls, in order.
captureCalls(i, client, commands, options) ==
    [k \in 1..Len(commands) |->
        [op |-> i, index |-> k, client |-> client, cmd |-> commands[k],
         description |-> <<>>, options |-> options, state |-> "pending"]]

\* Mutant: the operation looks the client up when it runs instead of using the
\* handle queueCapture was given.
submissionsLookup(i, op) ==
    IF op.kind = "capture" /\ sessionClient # Undefined
    THEN captureCalls(i, sessionClient[1], op.result.commands, op.result.options)
    ELSE <<>>

\* The addCommand calls operation i makes when it is invoked.
submissions(i, op) ==
    IF op.kind = "capture" /\ op.client # Undefined
    THEN captureCalls(i, op.client[1], op.result.commands, op.result.options)
    ELSE <<>>

\* Mutant: the capture operation without its `if (!client) return`: calling
\* addCommand on undefined throws, and the operation rejects.
returnedNoGuard(op) ==
    IF op.kind = "capture" /\ op.client = Undefined THEN "rejected" ELSE "pending"

\* The promise the operation returns when it is invoked: the capture operation
\* returns at once without a client and awaits captureCommands with one.
returned(op) ==
    IF op.kind = "capture" /\ op.client = Undefined THEN "fulfilled" ELSE "pending"

\* The states of the promises operation i handed to Promise.allSettled.
callStates(i) == {calls[c].state : c \in {d \in 1..Len(calls) : calls[d].op = i}}

\* Mutant: Promise.all in place of Promise.allSettled: rejects on the first rejection.
allSettledAsAll(states) ==
    IF "rejected" \in states THEN "rejected"
    ELSE IF "pending" \in states THEN "pending" ELSE "fulfilled"

\* Mutant: the await dropped: captureCommands returns without waiting.
allSettledNoAwait(states) == "fulfilled"

\* Mutant: Promise.race in place of Promise.allSettled: done at the first settlement.
allSettledAsRace(states) ==
    IF states = {} \/ "fulfilled" \in states \/ "rejected" \in states
    THEN "fulfilled" ELSE "pending"

\* await Promise.allSettled(promises): fulfilled once none is pending.
allSettled(states) == IF "pending" \in states THEN "pending" ELSE "fulfilled"

(***************************************************************************)
(* The events the queue specification draws its Capture Requests from.     *)
(***************************************************************************)
CaptureEvents ==
    { << <<"a", ";", "b">>, Some(0), Some("/workspace") >>,
      << <<"a", "\n", "a">>, Some(1), Undefined >>,
      << <<";">>, Undefined, Some("/workspace") >> }

Requests ==
    {processTerminalExecution(e[1], e[2], e[3], FALSE) : e \in CaptureEvents} \ {NULL}

\* The requests queued while there is no client: the operation returns before it
\* reads its request, so one request with commands stands for all of them.
RequestsWithoutClient ==
    {r \in Requests : Len(r.commands) = 2 /\ r.options.status = "success"}

(***************************************************************************)
(* Actions of the queue                                                    *)
(***************************************************************************)
\* Mutant: enqueue invokes the operation itself when the queue is idle.
EnqueueSync(operation) ==
    /\ Len(ops) < MaxOps
    /\ ops' = Append(ops, operation)
    /\ thenP' = Append(thenP, "pending")
    /\ catchP' = Append(catchP, "pending")
    /\ enqueuedWhileRunning' =
           Append(enqueuedWhileRunning, \E i \in 1..Len(opP) : opP[i] = "pending")
    /\ IF previousTail(Len(ops) + 1) = "fulfilled"
       THEN /\ opP' = Append(opP, returned(operation))
            /\ started' = Append(started, Len(ops) + 1)
            /\ calls' = calls \o submissions(Len(ops) + 1, operation)
       ELSE /\ opP' = Append(opP, "unstarted")
            /\ UNCHANGED <<started, calls>>
    /\ UNCHANGED eventVars

\* enqueue(operation): this.queue = this.queue.then(operation).catch(() => {})
Enqueue(operation) ==
    /\ Len(ops) < MaxOps
    /\ ops' = Append(ops, operation)
    /\ opP' = Append(opP, "unstarted")
    /\ thenP' = Append(thenP, "pending")
    /\ catchP' = Append(catchP, "pending")
    /\ enqueuedWhileRunning' =
           Append(enqueuedWhileRunning, \E i \in 1..Len(opP) : opP[i] = "pending")
    /\ UNCHANGED <<started, calls>>
    /\ UNCHANGED eventVars

EnqueueOperation == Enqueue(otherOperation)

\* queueCapture(queue, client, result)
QueueCapture(client, res) == Enqueue(queueCaptureOperation(client, res))

\* The reaction .then(operation) registered on the previous tail, run as a job once
\* that tail has settled: it invokes the operation if the tail fulfilled, and passes
\* the rejection on, without invoking it, if the tail rejected.  The synchronous part
\* of the operation (up to its first await) runs inside this job.
ThenReaction(i) ==
    /\ i \in 1..Len(ops)
    /\ thenP[i] = "pending"
    /\ opP[i] = "unstarted"
    /\ Settled(previousTail(i))
    /\ IF previousTail(i) = "fulfilled"
       THEN /\ started' = Append(started, i)
            /\ calls' = calls \o submissions(i, ops[i])
            /\ opP' = [opP EXCEPT ![i] = returned(ops[i])]
            /\ UNCHANGED thenP
       ELSE /\ thenP' = [thenP EXCEPT ![i] = "rejected"]
            /\ UNCHANGED <<started, calls, opP>>
    /\ UNCHANGED <<ops, catchP, enqueuedWhileRunning>>
    /\ UNCHANGED eventVars

\* An operation other than a capture settles: it resolves or it throws.
SettleOperation(i, outcome) ==
    /\ i \in 1..Len(ops)
    /\ ops[i].kind = "operation"
    /\ opP[i] = "pending"
    /\ opP' = [opP EXCEPT ![i] = outcome]
    /\ UNCHANGED <<ops, thenP, catchP, started, calls, enqueuedWhileRunning>>
    /\ UNCHANGED eventVars

\* The promise of one client.addCommand call settles.
SettleCall(c, outcome) ==
    /\ c \in 1..Len(calls)
    /\ calls[c].state = "pending"
    /\ calls' = [calls EXCEPT ![c].state = outcome]
    /\ UNCHANGED <<ops, opP, thenP, catchP, started, enqueuedWhileRunning>>
    /\ UNCHANGED eventVars

\* captureCommands resumes after its await, and with it the capture operation.
CaptureDone(i) ==
    /\ i \in 1..Len(ops)
    /\ ops[i].kind = "capture"
    /\ opP[i] = "pending"
    /\ Settled(allSettled(callStates(i)))
    /\ opP' = [opP EXCEPT ![i] = allSettled(callStates(i))]
    /\ UNCHANGED <<ops, thenP, catchP, started, calls, enqueuedWhileRunning>>
    /\ UNCHANGED eventVars

\* Mutant: the reaction does not return the operation's promise
\* (.then(() => { operation(); })), so the tail does not wait for it.
ThenSettleNoReturn(i) ==
    /\ i \in 1..Len(ops)
    /\ thenP[i] = "pending"
    /\ opP[i] # "unstarted"
    /\ thenP' = [thenP EXCEPT ![i] = "fulfilled"]
    /\ UNCHANGED <<ops, opP, catchP, started, calls, enqueuedWhileRunning>>
    /\ UNCHANGED eventVars

\* The promise of .then(operation) follows the promise the operation returned.
ThenSettle(i) ==
    /\ i \in 1..Len(ops)
    /\ thenP[i] = "pending"
    /\ Settled(opP[i])
    /\ thenP' = [thenP EXCEPT ![i] = opP[i]]
    /\ UNCHANGED <<ops, opP, catchP, started, calls, enqueuedWhileRunning>>
    /\ UNCHANGED eventVars

\* The reaction .catch(() => {}) registered on the promise of .then(operation).
CatchReaction(i) ==
    /\ i \in 1..Len(ops)
    /\ catchP[i] = "pending"
    /\ Settled(thenP[i])
    /\ catchP' = [catchP EXCEPT ![i] = catchOutcome(thenP[i])]
    /\ UNCHANGED <<ops, opP, thenP, started, calls, enqueuedWhileRunning>>
    /\ UNCHANGED eventVars

\* The jobs of the promise machinery, which the event loop always runs.
Job ==
    \E i \in 1..MaxOps :
        ThenReaction(i) \/ CaptureDone(i) \/ ThenSettle(i) \/ CatchReaction(i)

Init ==
    /\ QueueIdle
    /\ CallerIdle
    /\ commandLine = <<>>
    /\ exitCode = Undefined
    /\ workspaceContext = Undefined
    /\ captureSuccessOnly = FALSE
    /\ result = NotCalled

Next ==
    \/ EnqueueOperation
    \/ \E res \in Requests : QueueCapture(Some("client1"), res)
    \/ \E res \in RequestsWithoutClient : QueueCapture(Undefined, res)
    \/ \E i \in 1..MaxOps : ThenReaction(i)
    \/ \E i \in 1..MaxOps, outcome \in {"fulfilled", "rejected"} : SettleOperation(i, outcome)
    \/ \E c \in 1..Len(calls), outcome \in {"fulfilled", "rejected"} : SettleCall(c, outcome)
    \/ \E i \in 1..MaxOps : CaptureDone(i)
    \/ \E i \in 1..MaxOps : ThenSettle(i)
    \/ \E i \in 1..MaxOps : CatchReaction(i)

Spec == Init /\ [][Next]_vars

\* The steps of Spec, with the enqueue calls bounded by MaxFairOps.
NextFair ==
    \/ Len(ops) < MaxFairOps /\ EnqueueOperation
    \/ \E res \in Requests : Len(ops) < MaxFairOps /\ QueueCapture(Some("client1"), res)
    \/ \E res \in RequestsWithoutClient : Len(ops) < MaxFairOps /\ QueueCapture(Undefined, res)
    \/ \E i \in 1..MaxOps : ThenReaction(i)
    \/ \E i \in 1..MaxOps, outcome \in {"fulfilled", "rejected"} : SettleOperation(i, outcome)
    \/ \E c \in 1..Len(calls), outcome \in {"fulfilled", "rejected"} : SettleCall(c, outcome)
    \/ \E i \in 1..MaxOps : CaptureDone(i)
    \/ \E i \in 1..MaxOps : ThenSettle(i)
    \/ \E i \in 1..MaxOps : CatchReaction(i)

\* The event loop runs every job that is ready; nothing makes an operation or a
\* client call settle, and nothing makes a caller enqueue.
FairSpec == Init /\ [][NextFair]_vars /\ WF_vars(Job)

(***************************************************************************)
(* Specification SpecSession: the caller's client handle comes, goes and   *)
(* is replaced while captures are queued; each queueCapture call is given  *)
(* the handle the caller holds at that moment.                             *)
(***************************************************************************)
SessionClients == {Undefined} \cup {Some(c) : c \in Clients}

\* The requests queued in this specification: the one with two commands.
SessionRequests == RequestsWithoutClient

\* The caller's handle changes: a client connects, disconnects or is replaced.
SetClient(c) ==
    /\ c \in SessionClients
    /\ c # sessionClient
    /\ sessionClient' = c
    /\ overtaken' = {i \in 1..Len(ops) : opP[i] = "unstarted"}
    /\ UNCHANGED <<commandLine, exitCode, workspaceContext, captureSuccessOnly, result, split>>
    /\ UNCHANGED queueVars

\* queueCapture(queue, client, result) with the handle the caller holds now.
\* The other variables of the caller stay as they are (Enqueue leaves them).
QueueCaptureFromSession(res) ==
    /\ Len(ops) < MaxSessionOps
    /\ QueueCapture(sessionClient, res)

InitSession ==
    /\ QueueIdle
    /\ split = NotSplit
    /\ sessionClient \in SessionClients
    /\ overtaken = {}
    /\ commandLine = <<>>
    /\ exitCode = Undefined
    /\ workspaceContext = Undefined
    /\ captureSuccessOnly = FALSE
    /\ result = NotCalled

NextSession ==
    \/ \E c \in SessionClients : SetClient(c)
    \/ \E res \in SessionRequests : QueueCaptureFromSession(res)
    \/ \E i \in 1..MaxOps : ThenReaction(i)
    \/ \E c \in 1..Len(calls), outcome \in {"fulfilled", "rejected"} : SettleCall(c, outcome)
    \/ \E i \in 1..MaxOps : CaptureDone(i)
    \/ \E i \in 1..MaxOps : ThenSettle(i)
    \/ \E i \in 1..MaxOps : CatchReaction(i)

SpecSession == InitSession /\ [][NextSession]_vars

(***************************************************************************)
(* Vocabulary of the claims                                                *)
(***************************************************************************)
OpIds == 1..Len(ops)
Invoked(i) == opP[i] # "unstarted"
Executing(i) == opP[i] = "pending"
CallsOf(i) == {c \in 1..Len(calls) : calls[c].op = i}
IsCapture(i) == ops[i].kind = "capture"
WithClient(i) == IsCapture(i) /\ ops[i].client # Undefined
WithoutClient(i) == IsCapture(i) /\ ops[i].client = Undefined
InEnqueueOrder == started = [k \in 1..Len(started) |-> k]
\* No job of the promise machinery is left to run.
NoJobLeft == ~ENABLED Job

(***************************************************************************)
(* C1: operations start in enqueue order, and operation n+1 does not start *)
(* until operation n has settled, whenever the operations were enqueued    *)
(* and however long each takes.                                            *)
(***************************************************************************)
C1_StartInEnqueueOrder ==
    /\ InEnqueueOrder
    /\ \A i \in OpIds : Invoked(i) <=> (\E k \in 1..Len(started) : started[k] = i)
    /\ \A i \in OpIds : (i > 1 /\ Invoked(i)) => Settled(opP[i - 1])

\* Three operations have started, the second and third enqueued while the first ran.
C1_Witness ==
    /\ Len(started) = 3
    /\ enqueuedWhileRunning[2]
    /\ enqueuedWhileRunning[3]
    /\ opP[1] = "rejected"

(***************************************************************************)
(* C2: at most one enqueued operation is executing (started and not yet    *)
(* settled) in every reachable state.                                      *)
(***************************************************************************)
C2_AtMostOneExecuting ==
    Cardinality({i \in OpIds : Executing(i)}) <= 1

\* One operation executes while two more wait behind it.
C2_Witness ==
    /\ Len(ops) = 3
    /\ Executing(1)
    /\ ~Invoked(2)
    /\ ~Invoked(3)

(***************************************************************************)
(* C3: an operation that rejects does not abort the lane: the rejection is *)
(* swallowed, no later operation is skipped, and every operation enqueued  *)
(* after it is invoked, in enqueue order, once the jobs have run.          *)
(***************************************************************************)
C3_FaultIsolation ==
    /\ \A i \in OpIds : catchP[i] # "rejected"
    /\ \A i \in OpIds : thenP[i] = "rejected" => opP[i] = "rejected"
    /\ InEnqueueOrder
    /\ NoJobLeft =>
          \A i \in OpIds : (opP[i] = "rejected" /\ i < Len(ops)) => Invoked(i + 1)

\* The middle operation of three failed, one was enqueued before the failure and
\* one after it, and all three were invoked.
C3_Witness ==
    /\ Len(started) = 3
    /\ opP[2] = "rejected"
    /\ enqueuedWhileRunning[2]
    /\ ~enqueuedWhileRunning[3]
    /\ Settled(opP[3])

(***************************************************************************)
(* C4: enqueue is non-blocking: it can be called whatever the earlier      *)
(* operations are doing, it leaves them as they are, and it never invokes  *)
(* the operation it was given: that one starts only in a later step.       *)
(***************************************************************************)
C4_EnqueueNonBlocking ==
    /\ [](Len(ops) < MaxOps => ENABLED EnqueueOperation)
    /\ [][Len(ops') > Len(ops) =>
            /\ opP' = Append(opP, "unstarted")
            /\ thenP' = Append(thenP, "pending")
            /\ started' = started
            /\ calls' = calls]_vars

\* An enqueue on an idle queue and an enqueue behind a running operation have both
\* returned, the second with its operation not started.
C4_Witness ==
    /\ Len(ops) >= 2
    /\ ~enqueuedWhileRunning[1]
    /\ enqueuedWhileRunning[2]
    /\ Executing(1)
    /\ ~Invoked(2)

(***************************************************************************)
(* C5: of two Capture Requests queued with a client, the one enqueued      *)
(* first has all its submissions started and settled before any submission *)
(* of the later one starts; only submissions of one request are in flight  *)
(* together.                                                               *)
(***************************************************************************)
C5_RequestsInOrder ==
    /\ \A c, d \in 1..Len(calls) :
          calls[c].op < calls[d].op => Settled(calls[c].state)
    /\ \A i, j \in OpIds :
          (i < j /\ WithClient(i) /\ WithClient(j) /\ Invoked(j)) =>
              /\ Cardinality(CallsOf(i)) = Len(ops[i].result.commands)
              /\ \A c \in CallsOf(i) : Settled(calls[c].state)

\* Two submissions of the later request are in flight together after the two of
\* the earlier request settled, one of them rejected.
C5_Witness ==
    \E c, d, e, f \in 1..Len(calls) :
        /\ calls[c].op < calls[e].op
        /\ calls[c].op = calls[d].op /\ c # d
        /\ calls[e].op = calls[f].op /\ e # f
        /\ calls[c].state = "rejected"
        /\ calls[e].state = "pending" /\ calls[f].state = "pending"

(***************************************************************************)
(* C6: captureCommands with N commands calls client.addCommand exactly     *)
(* once per command, whichever of the calls reject, and completes without  *)
(* an error.                                                               *)
(***************************************************************************)
C6_OneCallPerCommand ==
    \A i \in OpIds : (WithClient(i) /\ Invoked(i)) =>
        /\ Cardinality(CallsOf(i)) = Len(ops[i].result.commands)
        /\ \A k \in 1..Len(ops[i].result.commands) :
              \E c \in CallsOf(i) :
                  calls[c].index = k /\ calls[c].cmd = ops[i].result.commands[k]
        /\ opP[i] # "rejected"

\* captureCommands completed although one of its two submissions rejected.
C6_Witness ==
    \E i \in OpIds :
        /\ WithClient(i)
        /\ opP[i] = "fulfilled"
        /\ \E c, d \in CallsOf(i) :
              calls[c].state = "rejected" /\ calls[d].state = "fulfilled"

(***************************************************************************)
(* C7: queueCapture without a client makes no submission and raises no     *)
(* error; its operation takes its turn and settles, and the operations     *)
(* enqueued after it run.                                                  *)
(***************************************************************************)
C7_AbsentClient ==
    \A i \in OpIds : WithoutClient(i) =>
        /\ CallsOf(i) = {}
        /\ opP[i] \in {"unstarted", "fulfilled"}
        /\ thenP[i] # "rejected"
        /\ catchP[i] # "rejected"
        /\ (i > 1 /\ Invoked(i)) => Settled(opP[i - 1])
        /\ (NoJobLeft /\ Invoked(i) /\ i < Len(ops)) => Invoked(i + 1)

\* A capture without a client ran between two captures with one, and the last
\* one made its submissions.
C7_Witness ==
    /\ Len(ops) = 3
    /\ WithClient(1) /\ WithoutClient(2) /\ WithClient(3)
    /\ opP[2] = "fulfilled"
    /\ CallsOf(3) # {}

(***************************************************************************)
(* C8: there is no timeout: a capture operation does not settle while one  *)
(* of its submissions is unsettled, and nothing enqueued after it starts;  *)
(* all submissions of the request are started all the same, and once every *)
(* one of them has settled, whatever the outcome, the operation settles.   *)
(***************************************************************************)
C8_NoTimeout ==
    /\ \A i \in OpIds : (WithClient(i) /\ Settled(opP[i])) =>
          \A c \in CallsOf(i) : Settled(calls[c].state)
    /\ \A i \in OpIds : (WithClient(i) /\ ~Settled(opP[i])) =>
          \A j \in OpIds : j > i => ~Invoked(j)
    /\ \A i \in OpIds : (WithClient(i) /\ Invoked(i)) =>
          Cardinality(CallsOf(i)) = Len(ops[i].result.commands)
    /\ NoJobLeft =>
          \A i \in OpIds :
              (WithClient(i) /\ Invoked(i) /\ \A c \in CallsOf(i) : Settled(calls[c].state))
                  => opP[i] = "fulfilled"

\* One submission of a request stalls after the other one rejected: the operation
\* is unsettled and the operation enqueued behind it has not started.
C8_Witness ==
    \E i \in OpIds :
        /\ WithClient(i)
        /\ Executing(i)
        /\ i < Len(ops)
        /\ NoJobLeft
        /\ \E c, d \in CallsOf(i) :
              calls[c].state = "pending" /\ calls[d].state = "rejected"

(***************************************************************************)
(* C9: processTerminalExecution returns null exactly when the command line *)
(* is empty or all whitespace, or captureSuccessOnly is set and the exit   *)
(* code is not 0 (undefined included); otherwise it returns the request    *)
(* with the commands splitCommands gives and the context passed in.        *)
(***************************************************************************)
AllWhiteSpace(cl) == \A k \in 1..Len(cl) : cl[k] \in WhiteSpace

C9_NullExactlyWhenSkipped ==
    result # NotCalled =>
        /\ result = NULL <=>
              \/ AllWhiteSpace(commandLine)
              \/ (captureSuccessOnly /\ exitCode # Some(0))
        /\ result # NULL =>
              /\ result.commands = splitCommands(commandLine)
              /\ result.options.context = workspaceContext

\* A request came back under captureSuccessOnly for a line with blanks around a
\* separator, with two commands and an undefined context.
C9_Witness ==
    /\ result # NotCalled
    /\ result # NULL
    /\ captureSuccessOnly
    /\ workspaceContext = Undefined
    /\ Len(result.commands) = 2
    /\ Head(commandLine) = " "

(***************************************************************************)
(* C10: in every request returned, status is success iff the exit code is  *)
(* exactly 0 (undefined gives failed); under captureSuccessOnly every      *)
(* returned request has status success; and computing the status before    *)
(* the success-only filter gives the same result as computing it after.    *)
(***************************************************************************)
\* The decision rule in the order status, filter, split.
statusThenFilter(cl, ec, ctx, successOnly) ==
    LET status == IF ec = Some(0) THEN "success" ELSE "failed"
    IN  IF AllWhiteSpace(cl) THEN NULL
        ELSE IF successOnly /\ status # "success" THEN NULL
        ELSE [commands |-> splitCommands(cl),
              options |-> [context |-> ctx, status |-> status]]

C10_StatusFromExitCode ==
    result # NotCalled =>
        /\ result # NULL =>
              /\ result.options.status \in {"success", "failed"}
              /\ result.options.status = "success" <=> exitCode = Some(0)
              /\ captureSuccessOnly => result.options.status = "success"
        /\ result = statusThenFilter(commandLine, exitCode,
                                     workspaceContext, captureSuccessOnly)

\* A request with status failed came back for an undefined exit code.
C10_Witness ==
    /\ result # NotCalled
    /\ result # NULL
    /\ exitCode = Undefined
    /\ result.options.status = "failed"
    /\ ~captureSuccessOnly

(***************************************************************************)
(* C11: every entry of splitCommands' output is non-empty and has no       *)
(* leading or trailing whitespace, for every input string.                 *)
(***************************************************************************)
C11_EntriesTrimmedNonEmpty ==
    split.called =>
        \A k \in 1..Len(split.commands) :
            /\ Len(split.commands[k]) > 0
            /\ split.commands[k][1] \notin WhiteSpace
            /\ split.commands[k][Len(split.commands[k])] \notin WhiteSpace

\* Two entries came out of a line with blanks on both sides of its fragments.
C11_Witness ==
    /\ split.called
    /\ commandLine = <<" ", "a", ";", "b", " ">>
    /\ split.commands = << <<"a">>, <<"b">> >>

(***************************************************************************)
(* C12: splitCommands' output equals the reference result: cut the input   *)
(* at every newline and, left to right, at every ||, && and ; (a single |  *)
(* or & is no separator), trim each fragment, drop the empty ones, keep    *)
(* the order.                                                              *)
(***************************************************************************)
\* The raw fragments of s from index i on; start is where the current one began.
RECURSIVE refFragments(_, _, _)
refFragments(s, i, start) ==
    IF i > Len(s) THEN << SubSeq(s, start, Len(s)) >>
    ELSE IF s[i] \in {"\n", ";"}
         THEN << SubSeq(s, start, i - 1) >> \o refFragments(s, i + 1, i + 1)
    ELSE IF i < Len(s) /\ s[i] \in {"|", "&"} /\ s[i + 1] = s[i]
         THEN << SubSeq(s, start, i - 1) >> \o refFragments(s, i + 2, i + 2)
    ELSE refFragments(s, i + 1, start)

\* f between its first and its last character that is no whitespace.
refTrim(f) ==
    LET solid == {k \in 1..Len(f) : f[k] \notin WhiteSpace}
    IN  IF solid = {} THEN <<>>
        ELSE SubSeq(f, CHOOSE k \in solid : \A m \in solid : k <= m,
                       CHOOSE k \in solid : \A m \in solid : k >= m)

refNonEmpty(f) == f # <<>>

refSplit(s) ==
    LET raw == refFragments(s, 1, 1)
    IN  SelectSeq([k \in 1..Len(raw) |-> refTrim(raw[k])], refNonEmpty)

C12_EqualsReference ==
    split.called => split.commands = refSplit(commandLine)

\* "a&&b;" came out as a, b.
C12_Witness ==
    /\ split.called
    /\ commandLine = <<"a", "&", "&", "b", ";">>
    /\ split.commands = << <<"a">>, <<"b">> >>

(***************************************************************************)
(* C13: splitCommands yields the empty sequence for the empty string, for  *)
(* whitespace-only input and for input made only of separators and         *)
(* whitespace.                                                             *)
(***************************************************************************)
\* s is a concatenation of ||, &&, ; and whitespace characters.
RECURSIVE OnlySeparatorsAndWhiteSpace(_)
OnlySeparatorsAndWhiteSpace(s) ==
    \/ s = <<>>
    \/ /\ s # <<>>
       /\ (s[1] \in WhiteSpace \/ s[1] = ";")
       /\ OnlySeparatorsAndWhiteSpace(Tail(s))
    \/ /\ Len(s) >= 2
       /\ s[1] \in {"|", "&"}
       /\ s[2] = s[1]
       /\ OnlySeparatorsAndWhiteSpace(SubSeq(s, 3, Len(s)))

C13_EmptyForSeparatorsOnly ==
    (split.called /\ OnlySeparatorsAndWhiteSpace(commandLine)) => split.commands = <<>>

\* "&& ||" gave nothing.
C13_Witness ==
    /\ split.called
    /\ commandLine = <<"&", "&", " ", "|", "|">>
    /\ split.commands = <<>>

(***************************************************************************)
(* C17: splitting distributes over newline-joined input:                   *)
(* splitCommands(a + "\n" + b) is splitCommands(a) followed by             *)
(* splitCommands(b), for every way of reading the input as a + "\n" + b.   *)
(***************************************************************************)
C17_DistributesOverNewline ==
    split.called =>
        \A k \in 1..Len(commandLine) :
            commandLine[k] = "\n" =>
                split.commands =
                    splitCommands(SubSeq(commandLine, 1, k - 1))
                        \o splitCommands(SubSeq(commandLine, k + 1, Len(commandLine)))

\* "a;b" + "\n" + "a" gave a, b, a.
C17_Witness ==
    /\ split.called
    /\ commandLine = <<"a", ";", "b", "\n", "a">>
    /\ split.commands = << <<"a">>, <<"b">>, <<"a">> >>

(***************************************************************************)
(* C18: no entry of splitCommands' output contains a newline, a ;, a && or *)
(* a ||, and splitting an entry again gives that entry alone.              *)
(***************************************************************************)
HasSeparator(c) ==
    \E k \in 1..Len(c) :
        \/ c[k] \in {"\n", ";"}
        \/ k < Len(c) /\ c[k] \in {"|", "&"} /\ c[k + 1] = c[k]

C18_IdempotentOnEntries ==
    split.called =>
        \A k \in 1..Len(split.commands) :
            /\ ~HasSeparator(split.commands[k])
            /\ splitCommands(split.commands[k]) = << split.commands[k] >>

\* An entry that keeps a single | and an inner blank came out next to another one.
C18_Witness ==
    /\ split.called
    /\ commandLine = <<"a", " ", "|", "b", ";">>
    /\ split.commands = << <<"a", " ", "|", "b">> >>

(***************************************************************************)
(* C19, as claimed: every Capture Request processTerminalExecution returns *)
(* carries at least one command.                                           *)
(***************************************************************************)
C19_AtLeastOneCommand ==
    (result # NotCalled /\ result # NULL) => Len(result.commands) >= 1

(***************************************************************************)
(* C19, amended: a returned request carries no command exactly when the    *)
(* command line is made only of separators and whitespace; such a line, if *)
(* it holds a separator and is not filtered out, is not skipped: it gives  *)
(* a request with an empty command list.  Only the whitespace-only line    *)
(* gives null.                                                             *)
(***************************************************************************)
C19_EmptyRequestForSeparators ==
    result # NotCalled =>
        /\ result # NULL =>
              (Len(result.commands) = 0 <=> OnlySeparatorsAndWhiteSpace(commandLine))
        /\ AllWhiteSpace(commandLine) => result = NULL
        /\ ( /\ OnlySeparatorsAndWhiteSpace(commandLine)
             /\ ~AllWhiteSpace(commandLine)
             /\ ~(captureSuccessOnly /\ exitCode # Some(0)) )
              => (result # NULL /\ result.commands = <<>>)

\* " ;" with exit code 0 came back as a request without commands.
C19_Witness ==
    /\ result # NotCalled
    /\ result # NULL
    /\ commandLine = <<" ", ";">>
    /\ exitCode = Some(0)
    /\ result.commands = <<>>

(***************************************************************************)
(* C15: every submission made for a queued Capture Request carries a       *)
(* command of that request, an empty description and that request's        *)
(* options, never those of another request; each entry of the request's    *)
(* command list, duplicates included, is submitted exactly once.           *)
(***************************************************************************)
C15_SubmissionsCarryOwnRequest ==
    /\ \A c \in 1..Len(calls) :
          /\ calls[c].op \in OpIds
          /\ WithClient(calls[c].op)
          /\ calls[c].index \in 1..Len(ops[calls[c].op].result.commands)
          /\ calls[c].cmd = ops[calls[c].op].result.commands[calls[c].index]
          /\ calls[c].description = <<>>
          /\ calls[c].options = ops[calls[c].op].result.options
    /\ \A i \in OpIds : (WithClient(i) /\ Invoked(i)) =>
          \A k \in 1..Len(ops[i].result.commands) :
              Cardinality({c \in CallsOf(i) : calls[c].index = k}) = 1

\* A success request and a failed request were both submitted, the failed one
\* with the same command twice.
C15_Witness ==
    \E c, d, e \in 1..Len(calls) :
        /\ calls[c].options.status = "success"
        /\ calls[d].options.status = "failed"
        /\ calls[d].options.context # calls[c].options.context
        /\ calls[e].op = calls[d].op
        /\ e # d
        /\ calls[e].cmd = calls[d].cmd

(***************************************************************************)
(* C16: within one Capture Request the submissions are initiated in the    *)
(* order of the command list, and all of them before captureCommands waits *)
(* for any of them: whenever one exists, all exist, whatever has settled.  *)
(***************************************************************************)
FirstCallOf(i) == CHOOSE c \in CallsOf(i) : \A d \in CallsOf(i) : c <= d

C16_InitiatedInOrderBeforeWaiting ==
    \A i \in OpIds : (WithClient(i) /\ Invoked(i)) =>
        /\ Cardinality(CallsOf(i)) = Len(ops[i].result.commands)
        /\ CallsOf(i) # {} =>
              LET first == FirstCallOf(i) IN
              \A k \in 1..Len(ops[i].result.commands) :
                  /\ first + k - 1 \in 1..Len(calls)
                  /\ calls[first + k - 1].op = i
                  /\ calls[first + k - 1].index = k
                  /\ calls[first + k - 1].cmd = ops[i].result.commands[k]

\* The second submission of a request settled while the first is still pending.
C16_Witness ==
    \E c, d \in 1..Len(calls) :
        /\ calls[c].op = calls[d].op
        /\ calls[c].index = 1 /\ calls[c].cmd = <<"a">>
        /\ calls[d].index = 2 /\ calls[d].cmd = <<"b">>
        /\ calls[c].state = "pending"
        /\ calls[d].state = "fulfilled"

(***************************************************************************)
(* C20: a queued capture operation uses the client handle queueCapture was *)
(* given, not the one the caller holds when the operation runs: queued     *)
(* without a client it makes no submission even if a client is there when  *)
(* it runs; queued with a client it submits to that client even if the     *)
(* caller's client was cleared or replaced meanwhile.                      *)
(***************************************************************************)
C20_ClientFixedAtEnqueue ==
    \A i \in OpIds :
        /\ WithoutClient(i) => CallsOf(i) = {}
        /\ (WithClient(i) /\ Invoked(i)) =>
              /\ Cardinality(CallsOf(i)) = Len(ops[i].result.commands)
              /\ \A c \in CallsOf(i) : calls[c].client = ops[i].client[1]

\* Two operations were waiting when the caller's client last changed and ran
\* afterwards: the one queued without a client made no submission although a
\* client is there, the one queued with a client submitted to it although the
\* caller now holds another.
C20_Witness ==
    \E i, j \in overtaken :
        /\ Invoked(i) /\ Invoked(j)
        /\ WithoutClient(i)
        /\ sessionClient # Undefined
        /\ CallsOf(i) = {}
        /\ WithClient(j)
        /\ ops[j].client # sessionClient
        /\ CallsOf(j) # {}
        /\ \A c \in CallsOf(j) : calls[c].client = ops[j].client[1]

(***************************************************************************)
(* C14: every enqueued operation is invoked at most once; if every         *)
(* operation enqueued before it eventually settles, it is eventually       *)
(* invoked; if every operation eventually settles, the queue drains again  *)
(* and again: no operation is left pending or running.                     *)
(***************************************************************************)
EnqueuedAt(i) == i <= Len(ops)
ExecutingAt(i) == i <= Len(ops) /\ opP[i] = "pending"
SettledAt(i) == i <= Len(ops) /\ Settled(opP[i])
InvokedOnceAt(i) ==
    /\ i <= Len(ops)
    /\ Cardinality({k \in 1..Len(started) : started[k] = i}) = 1
InvokedAtMostOnce ==
    \A i \in OpIds : Cardinality({k \in 1..Len(started) : started[k] = i}) <= 1
Drained == \A i \in OpIds : catchP[i] = "fulfilled"

C14_InvokedOnceAndDrains ==
    /\ []InvokedAtMostOnce
    /\ \A i \in 1..MaxFairOps :
          (\A j \in 1..(i - 1) : ExecutingAt(j) ~> SettledAt(j))
              => (EnqueuedAt(i) ~> InvokedOnceAt(i))
    /\ (\A j \in 1..MaxFairOps : ExecutingAt(j) ~> SettledAt(j)) => []<>Drained

\* Two operations enqueued in a row on the idle queue have both been invoked, the
\* first one rejected, and the queue is drained.
C14_Witness ==
    /\ Len(started) = 2
    /\ ~enqueuedWhileRunning[2]
    /\ opP[1] = "rejected"
    /\ Drained

====
